---- MODULE Spec2Model ----
(***************************************************************************)
(* The search-restaurants edge function (the serve handler) together with  *)
(* the two cache tables it reads and writes.                               *)
(*                                                                         *)
(* Numbers are scaled integers: a rating is in tenths (4.5 is 45), a       *)
(* confidence in hundredths (0.5 is 50), a time in milliseconds.  A        *)
(* coordinate is its decimal expansion without leading and trailing zeros. *)
(* Strings that the handler inspects character by character (the location) *)
(* are sequences of one-character strings.                                 *)
(***************************************************************************)
EXTENDS Integers, Sequences, FiniteSets, TLC

\* ------------------------------------------------------------------ bounds

\* Longest location string drawn in SpecLoc.
MaxLen == 5
\* Largest number of venues a places search returns in SpecBatch and SpecFail.
MaxCands == 2
\* Number of times the clock advances in Spec.
MaxTicks == 3
\* Number of surviving candidates drawn at the join in SpecRank.
MaxRanked == 3
\* Most venues a places search returns in SpecCap (more than the handler takes).
MaxResults == 27

\* ------------------------------------------------------- absent values

\* JavaScript undefined / NaN / SQL NULL in a numeric position.
Undef == -9999
\* JavaScript undefined in a string position (a missing property).
NoVal == "NoVal"

\* ------------------------------------------------------------- strings

Digits == {"0", "1"}
Chars == Digits \cup {"-", ".", ",", " ", "a"}

IsDigit(c) == c \in Digits
IsSpace(c) == c = " "

RECURSIVE TrimStart(_)
TrimStart(s) == IF s # <<>> /\ IsSpace(Head(s)) THEN TrimStart(Tail(s)) ELSE s

RECURSIVE TrimEnd(_)
TrimEnd(s) ==
  IF s # <<>> /\ IsSpace(s[Len(s)]) THEN TrimEnd(SubSeq(s, 1, Len(s) - 1)) ELSE s

\* String.prototype.trim
Trim(s) == TrimEnd(TrimStart(s))

\* String.prototype.includes for a one-character needle
Includes(s, c) == \E i \in DOMAIN s : s[i] = c

\* Length of the run of digits s starts with.
RECURSIVE DigitRun(_)
DigitRun(s) == IF s # <<>> /\ IsDigit(Head(s)) THEN 1 + DigitRun(Tail(s)) ELSE 0

\* The regular expression -?\d+\.?\d* anchored at both ends.
NumPattern(s) ==
  LET t == IF s # <<>> /\ Head(s) = "-" THEN Tail(s) ELSE s
      n == DigitRun(t)
      u == SubSeq(t, n + 1, Len(t))
      v == IF u # <<>> /\ Head(u) = "." THEN Tail(u) ELSE u
  IN  n >= 1 /\ DigitRun(v) = Len(v)

\* A variant that accepts whatever holds a comma.
CoordPatternAnyComma(s) == \E k \in DOMAIN s : s[k] = ","

\* The regular expression /^-?\d+\.?\d*,-?\d+\.?\d*$/ .
CoordPattern(s) ==
  \E k \in DOMAIN s :
    /\ s[k] = ","
    /\ NumPattern(SubSeq(s, 1, k - 1))
    /\ NumPattern(SubSeq(s, k + 1, Len(s)))

\* String.prototype.split on a one-character separator.
RECURSIVE Split(_, _)
Split(s, c) ==
  IF ~Includes(s, c) THEN <<s>>
  ELSE LET k == CHOOSE i \in DOMAIN s : s[i] = c /\ \A j \in 1..(i - 1) : s[j] # c
       IN  <<SubSeq(s, 1, k - 1)>> \o Split(SubSeq(s, k + 1, Len(s)), c)

RECURSIVE DropLeadingZeros(_)
DropLeadingZeros(s) ==
  IF s # <<>> /\ Head(s) = "0" THEN DropLeadingZeros(Tail(s)) ELSE s

RECURSIVE DropTrailingZeros(_)
DropTrailingZeros(s) ==
  IF s # <<>> /\ s[Len(s)] = "0" THEN DropTrailingZeros(SubSeq(s, 1, Len(s) - 1)) ELSE s

NaNValue == [nan |-> TRUE, neg |-> FALSE, int |-> <<>>, frac |-> <<>>]

\* The number with integer digits int and fraction digits frac; -0 is 0.
Number(neg, int, frac) ==
  LET i == DropLeadingZeros(int)
      f == DropTrailingZeros(frac)
  IN  [nan |-> FALSE, neg |-> neg /\ (i # <<>> \/ f # <<>>), int |-> i, frac |-> f]

\* A variant that stops at the decimal point, as parseInt does.
ParseFloatNoFraction(str) ==
  LET s == TrimStart(str)
      neg == s # <<>> /\ Head(s) = "-"
      t == IF neg THEN Tail(s) ELSE s
      n == DigitRun(t)
  IN  IF n = 0 THEN NaNValue ELSE Number(neg, SubSeq(t, 1, n), <<>>)

\* parseFloat: skips leading white space, reads the longest prefix that is a
\* decimal literal, ignores what follows it, and yields NaN when there is none.
ParseFloat(str) ==
  LET s == TrimStart(str)
      neg == s # <<>> /\ Head(s) = "-"
      t == IF neg THEN Tail(s) ELSE s
      n == DigitRun(t)
      u == SubSeq(t, n + 1, Len(t))
      dot == u # <<>> /\ Head(u) = "."
      f == IF dot THEN DigitRun(Tail(u)) ELSE 0
  IN  IF n = 0 /\ f = 0 THEN NaNValue
      ELSE Number(neg, SubSeq(t, 1, n), IF dot THEN SubSeq(u, 2, f + 1) ELSE <<>>)

\* The coordinate-literal test of the handler.
IsCoordinateLiteral(location) ==
  Includes(location, ",") /\ CoordPattern(Trim(location))

\* const [lat, lng] = location.split(',').map(parseFloat)
LiteralParts(location) ==
  LET parts == Split(location, ",")
  IN  [lat |-> ParseFloat(parts[1]),
       lng |-> IF Len(parts) >= 2 THEN ParseFloat(parts[2]) ELSE NaNValue]

\* ---------------------------------------------------------- program constants

\* 24 * 60 * 60 * 1000: the freshness window of both cache lookups.
DayMs == 24 * 60 * 60 * 1000
\* placesData.results.slice(0, 25)
CandidateCap == 25
\* review.text.length > 20
MinReviewLen == 20
\* .slice(0, 12) of the qualifying review texts
MaxReviewTexts == 12
\* Math.min(100, rank_score)
MaxRankScore == 100
\* Math.min(1, confidence), in hundredths
MaxConfidence == 100
\* Status of a Response built without an explicit status.
StatusOk == 200
\* status: 500 of the outer catch.
StatusError == 500

\* ------------------------------------------------------------------- state

VARIABLES
  now,          \* Date.now(), in milliseconds
  ticks,        \* how often the clock has advanced
  restaurants,  \* rows of table public.restaurants
  summaries,    \* rows of table public.restaurant_ai_summaries
  req           \* the handler invocations, one per slot

vars == <<now, ticks, restaurants, summaries, req>>

Slots == {1}

Min(a, b) == IF a <= b THEN a ELSE b
Max(a, b) == IF a >= b THEN a ELSE b
Abs(x) == IF x < 0 THEN 0 - x ELSE x

\* Place identifiers the places search hands out, one per candidate position.
PlaceNames ==
  <<"p1", "p2", "p3", "p4", "p5", "p6", "p7", "p8", "p9", "p10",
    "p11", "p12", "p13", "p14", "p15", "p16", "p17", "p18", "p19", "p20",
    "p21", "p22", "p23", "p24", "p25", "p26", "p27", "p28", "p29", "p30">>
PlaceIds == {PlaceNames[i] : i \in 1..Min(MaxCands, Len(PlaceNames))}

\* `${value}` of a place identifier: undefined prints as "undefined".
FilterText(v) == IF v = NoVal THEN "undefined" ELSE v


\* JavaScript truthiness of an optional number: undefined, null, NaN and 0 are falsy.
Truthy(x) == x # Undef /\ x # 0

\* veg_only = false, jain_food = false, menu = []: the defaults of the body.
NoFilters == [veg_only |-> FALSE, jain_food |-> FALSE, menu |-> <<>>]

IdleReq ==
  [pc |-> "idle", location |-> <<>>, max_price |-> 4, filters |-> NoFilters,
   coordinates |-> <<>>, units |-> <<>>, response |-> <<>>, geocodeCalls |-> 0, searchCalls |-> 0,
   \* history of the request, read by the properties only
   searchStatus |-> "none", geocodeStatus |-> "none", searchResults |-> <<>>]

Init ==
  /\ now = 0
  /\ ticks = 0
  /\ restaurants = {}
  /\ summaries = {}
  /\ req = [r \in Slots |-> IdleReq]

\* ---------------------------------------------------------------- responses

NoError == [msg |-> "none", location |-> <<>>, status |-> "none"]

\* A variant that reports the error among the restaurants.
ErrorResponsePartial(err) ==
  [status |-> StatusError, error |-> err, restaurants |-> <<err>>, total_found |-> 1]

\* The outer catch: error.message, no restaurants, status 500.
ErrorResponse(err) ==
  [status |-> StatusError, error |-> err, restaurants |-> <<>>, total_found |-> 0]

\* A variant that reports every geocoding failure alike.
GeocodeErrorGeneric(location, status) ==
  [NoError EXCEPT !.msg = "Geocoding failed", !.status = status]

\* errorMsg of the geocode branch: zero results name the location that was
\* asked for, every other failure names the provider's status.
GeocodeError(location, status) ==
  IF status = "ZERO_RESULTS"
    THEN [NoError EXCEPT !.msg = "Unable to find location", !.location = location]
    ELSE [NoError EXCEPT !.msg = "Geocoding failed", !.status = status]

\* ------------------------------------------------- stage 1: resolve location

\* The request arrives: credentials check, then the coordinate literal branch
\* or the geocoding call is issued.
Receive(r, loc, mp, flt, haveKeys) ==
  /\ req[r].pc = "idle"
  /\ LET base == [req[r] EXCEPT !.location = loc, !.max_price = mp, !.filters = flt]
     IN  IF ~haveKeys
           THEN req' = [req EXCEPT ![r] =
                  [base EXCEPT !.pc = "done",
                     !.response = <<ErrorResponse([NoError EXCEPT !.msg = "Missing required API keys"])>>]]
         ELSE IF IsCoordinateLiteral(loc)
           THEN LET c == LiteralParts(loc)
                IN  IF c.lat.nan \/ c.lng.nan
                      THEN req' = [req EXCEPT ![r] =
                             [base EXCEPT !.pc = "done",
                                !.response = <<ErrorResponse([NoError EXCEPT !.msg = "Invalid coordinate format"])>>]]
                      ELSE req' = [req EXCEPT ![r] =
                             [base EXCEPT !.pc = "search",
                                !.coordinates = <<c>>,
                                !.searchCalls = 1]]
         ELSE req' = [req EXCEPT ![r] = [base EXCEPT !.pc = "geocode", !.geocodeCalls = 1]]
  /\ UNCHANGED <<now, ticks, restaurants, summaries>>

\* A point the geocoding provider answers with.
GeoPoint == [lat |-> Number(FALSE, <<"1", "0">>, <<"1">>),
             lng |-> Number(TRUE, <<"1">>, <<>>)]

GeocodeReplies ==
  {[status |-> "OK", results |-> <<GeoPoint>>],
   [status |-> "OK", results |-> <<>>],
   [status |-> "ZERO_RESULTS", results |-> <<>>],
   [status |-> "OVER_QUERY_LIMIT", results |-> <<>>]}

\* The geocoding response arrives.
GeocodeReply(r, reply) ==
  /\ req[r].pc = "geocode"
  /\ IF reply.status # "OK" \/ reply.results = <<>>
       THEN req' = [req EXCEPT
              ![r].pc = "done",
              ![r].geocodeStatus = reply.status,
              ![r].response = <<ErrorResponse(GeocodeError(req[r].location, reply.status))>>]
       ELSE req' = [req EXCEPT ![r].pc = "search",
                               ![r].geocodeStatus = reply.status,
                               ![r].coordinates = <<reply.results[1]>>,
                               ![r].searchCalls = 1]
  /\ UNCHANGED <<now, ticks, restaurants, summaries>>

\* ---------------------------------------------------------- stage 2: search

\* The per-candidate callback up to its first await: the venue cache query is
\* built (its threshold is now - 24h) and sent.
NewUnit(placeId) ==
  [place |-> placeId, pc |-> "venueRead", since |-> now - DayMs,
   data |-> <<>>, ai |-> <<>>, result |-> <<>>,
   \* history of the unit, read by the properties only
   lookupAt |-> now, seenVenue |-> <<>>, nDetails |-> 0, nGemini |-> 0,
   parseFailed |-> FALSE, nSummaryWrites |-> 0,
   detailsStatus |-> "none", nVenueWrites |-> 0, faults |-> {}, parsed |-> <<>>]

\* A variant in which a provider status of ZERO_RESULTS passes for success.
SearchSucceededLenient(status) == status \in {"OK", "ZERO_RESULTS"}

\* placesData.status !== 'OK' is the failure test.
SearchSucceeded(status) == status = "OK"

\* A variant that starts a unit for every venue of the response.
SearchReplyUncapped(r, reply) ==
  /\ req[r].pc = "search"
  /\ req' = [req EXCEPT
       ![r].pc = "enrich",
       ![r].searchStatus = reply.status,
       ![r].searchResults = reply.results,
       ![r].units = [i \in 1..Len(reply.results) |-> NewUnit(reply.results[i])]]
  /\ UNCHANGED <<now, ticks, restaurants, summaries>>

\* The places-search response arrives: a provider error ends the request, a
\* success starts one unit per candidate of the first CandidateCap.
SearchReply(r, reply) ==
  /\ req[r].pc = "search"
  /\ IF ~SearchSucceeded(reply.status)
       THEN req' = [req EXCEPT
              ![r].pc = "done",
              ![r].searchStatus = reply.status,
              ![r].searchResults = reply.results,
              ![r].response = <<ErrorResponse([NoError EXCEPT !.msg = "Places API error",
                                                               !.status = reply.status])>>]
       ELSE req' = [req EXCEPT
              ![r].pc = "enrich",
              ![r].searchStatus = reply.status,
              ![r].searchResults = reply.results,
              ![r].units = [i \in 1..Min(Len(reply.results), CandidateCap) |->
                              NewUnit(reply.results[i])]]
  /\ UNCHANGED <<now, ticks, restaurants, summaries>>

\* ------------------------------------------------------------- cache store

\* A variant that never finds a row fresh.
IsFreshNever(stamp, since) == FALSE

\* .gte(column, threshold): the row's timestamp is at or after the threshold.
IsFresh(stamp, since) == stamp >= since

\* .single(): the row when exactly one matches, otherwise no data.
Single(rows) == IF Cardinality(rows) = 1 THEN <<CHOOSE x \in rows : TRUE>> ELSE <<>>

\* from('restaurants').select('*').eq('place_id', id).gte('cached_at', since).single()
SelectVenue(id, since) ==
  Single({row \in restaurants : row.place_id = FilterText(id) /\ IsFresh(row.cached_at, since)})

\* from('restaurant_ai_summaries').select('*').eq('place_id', id).gte('generated_at', since).single()
SelectSummary(id, since) ==
  Single({row \in summaries : row.place_id = FilterText(id) /\ IsFresh(row.generated_at, since)})

\* upsert(row, { onConflict: 'place_id' }) on restaurants: place_id is NOT NULL
\* UNIQUE; a rejected statement is reported in the returned error, which the
\* handler does not read.
UpsertVenue(table, row) ==
  IF row.place_id = NoVal THEN table
  ELSE {x \in table : x.place_id # row.place_id} \cup {row}

\* The columns of restaurant_ai_summaries the handler never supplies take
\* their defaults: dishes_to_try and matching_menu_items are '{}'.
SummaryRow(row) ==
  [place_id |-> row.place_id, rank_score |-> row.rank_score,
   short_summary |-> row.short_summary, pros |-> row.pros, cons |-> row.cons,
   dishes_to_try |-> <<>>, matching_menu_items |-> <<>>,
   confidence |-> row.confidence, generated_at |-> row.generated_at]

\* upsert(row, { onConflict: 'place_id' }) on restaurant_ai_summaries: place_id,
\* rank_score and short_summary are NOT NULL, rank_score and confidence carry
\* CHECK constraints (a NULL passes a CHECK).
UpsertSummary(table, row) ==
  IF \/ row.place_id = NoVal
     \/ row.rank_score = Undef
     \/ row.rank_score < 0 \/ row.rank_score > MaxRankScore
     \/ row.short_summary = NoVal
     \/ (row.confidence # Undef /\ (row.confidence < 0 \/ row.confidence > MaxConfidence))
    THEN table
    ELSE {x \in table : x.place_id # row.place_id} \cup {SummaryRow(row)}

\* ------------------------------------------- stage 3: per-candidate enrichment

Unit(r, i) == req[r].units[i]

SetUnit(r, i, u) == req' = [req EXCEPT ![r].units[i] = u]

\* The ai_summary object of a result.
Projection(ai) ==
  [rank_score |-> ai.rank_score, short_summary |-> ai.short_summary,
   pros |-> ai.pros, cons |-> ai.cons, confidence |-> ai.confidence]

\* The object a unit returns; ord is the candidate's position in the search
\* result, kept for the properties.
BuildResult(d, ai, i) ==
  [place_id |-> d.place_id, rating |-> d.rating, price_level |-> d.price_level,
   ai_summary |-> IF ai = <<>> THEN <<>> ELSE <<Projection(ai[1])>>,
   ord |-> i]

\* The unit returns its result.
Returned(u, i) == [u EXCEPT !.pc = "finished", !.result = <<BuildResult(u.data[1], u.ai, i)>>]

\* A variant in which a hit renews the row's timestamp.
VenueLookupTouches(r, i) ==
  /\ req[r].pc = "enrich"
  /\ i \in DOMAIN req[r].units
  /\ Unit(r, i).pc = "venueRead"
  /\ LET u == Unit(r, i)
         hit == SelectVenue(u.place, u.since)
         seen == [u EXCEPT !.seenVenue = Single({row \in restaurants : row.place_id = u.place})]
     IN  IF hit # <<>>
           THEN /\ SetUnit(r, i, [seen EXCEPT !.data = hit, !.pc = "summaryRead",
                                                !.since = now - DayMs])
                /\ restaurants' = UpsertVenue(restaurants, [hit[1] EXCEPT !.cached_at = now])
           ELSE /\ SetUnit(r, i, [seen EXCEPT !.pc = "details", !.nDetails = @ + 1])
                /\ UNCHANGED restaurants
  /\ UNCHANGED <<now, ticks, summaries>>

\* The venue cache answers: a hit goes on to the summary lookup, a miss sends
\* the place-details request.
VenueLookup(r, i) ==
  /\ req[r].pc = "enrich"
  /\ i \in DOMAIN req[r].units
  /\ Unit(r, i).pc = "venueRead"
  /\ LET u == Unit(r, i)
         hit == SelectVenue(u.place, u.since)
         seen == [u EXCEPT !.seenVenue = Single({row \in restaurants : row.place_id = u.place})]
     IN  IF hit # <<>>
           THEN SetUnit(r, i, [seen EXCEPT !.data = hit, !.pc = "summaryRead",
                                           !.since = now - DayMs])
           ELSE SetUnit(r, i, [seen EXCEPT !.pc = "details", !.nDetails = @ + 1])
  /\ UNCHANGED <<now, ticks, restaurants, summaries>>

\* The venue cache query fails (the store is unreachable or answers with an
\* error): the client returns { data: null, error }, the handler reads data
\* only and goes on as after a miss.
VenueLookupError(r, i) ==
  /\ req[r].pc = "enrich"
  /\ i \in DOMAIN req[r].units
  /\ Unit(r, i).pc = "venueRead"
  /\ SetUnit(r, i, [Unit(r, i) EXCEPT !.pc = "details", !.nDetails = @ + 1,
                                      !.faults = @ \cup {"venueRead"}])
  /\ UNCHANGED <<now, ticks, restaurants, summaries>>

\* A variant in which an exception of one candidate ends the request.
DetailsThrowsEscapes(r, i) ==
  /\ req[r].pc = "enrich"
  /\ i \in DOMAIN req[r].units
  /\ Unit(r, i).pc = "details"
  /\ req' = [req EXCEPT
       ![r].pc = "done",
       ![r].units[i] = [Unit(r, i) EXCEPT !.pc = "finished", !.faults = @ \cup {"details"}],
       ![r].response = <<ErrorResponse([NoError EXCEPT !.msg = "Places API error"])>>]
  /\ UNCHANGED <<now, ticks, restaurants, summaries>>

\* The details fetch rejects, its body is no JSON, or building restaurantData
\* throws (a result without geometry): the callback's catch returns null.
DetailsThrows(r, i) ==
  /\ req[r].pc = "enrich"
  /\ i \in DOMAIN req[r].units
  /\ Unit(r, i).pc = "details"
  /\ SetUnit(r, i, [Unit(r, i) EXCEPT !.pc = "finished", !.faults = @ \cup {"details"}])
  /\ UNCHANGED <<now, ticks, restaurants, summaries>>

\* A variant in which a provider error of one candidate ends the request.
DetailsReplyAborts(r, i, reply) ==
  /\ req[r].pc = "enrich"
  /\ i \in DOMAIN req[r].units
  /\ Unit(r, i).pc = "details"
  /\ req' = [req EXCEPT
       ![r].pc = "done",
       ![r].units[i] = [Unit(r, i) EXCEPT !.pc = "finished", !.detailsStatus = reply.status],
       ![r].response = <<ErrorResponse([NoError EXCEPT !.msg = "Places API error",
                                                        !.status = reply.status])>>]
  /\ UNCHANGED <<now, ticks, restaurants, summaries>>

\* The place-details response arrives: a provider error drops the candidate,
\* a success builds restaurantData (stamped with the current time) and sends
\* the upsert.
DetailsReply(r, i, reply) ==
  /\ req[r].pc = "enrich"
  /\ i \in DOMAIN req[r].units
  /\ Unit(r, i).pc = "details"
  /\ LET u == [Unit(r, i) EXCEPT !.detailsStatus = reply.status]
     IN  IF reply.status # "OK"
           THEN SetUnit(r, i, [u EXCEPT !.pc = "finished"])
           ELSE SetUnit(r, i, [u EXCEPT
                  !.pc = "venueWrite",
                  !.data = <<[place_id |-> reply.place_id, rating |-> reply.rating,
                              price_level |-> reply.price_level,
                              reviews |-> reply.reviews, cached_at |-> now]>>])
  /\ UNCHANGED <<now, ticks, restaurants, summaries>>

\* The restaurants upsert is executed; the summary cache query is built and sent.
VenueWrite(r, i) ==
  /\ req[r].pc = "enrich"
  /\ i \in DOMAIN req[r].units
  /\ Unit(r, i).pc = "venueWrite"
  /\ restaurants' = UpsertVenue(restaurants, Unit(r, i).data[1])
  /\ SetUnit(r, i, [Unit(r, i) EXCEPT !.pc = "summaryRead", !.since = now - DayMs,
                                      !.nVenueWrites = @ + 1])
  /\ UNCHANGED <<now, ticks, summaries>>

\* A variant whose length test is >= 20.
ReviewTextsFromTwenty(reviews) ==
  LET long == SelectSeq(reviews, LAMBDA n : n >= MinReviewLen)
  IN  SubSeq(long, 1, Min(Len(long), MaxReviewTexts))

\* restaurantData.reviews.filter(text && text.length > 20).slice(0, 12): a
\* review is the length of its text (0 for a missing or empty text).
ReviewTexts(reviews) ==
  LET long == SelectSeq(reviews, LAMBDA n : n > MinReviewLen)
  IN  SubSeq(long, 1, Min(Len(long), MaxReviewTexts))

\* A variant that uses a cached summary for a request without filters only.
SummaryLookupPerFilters(r, i) ==
  /\ req[r].pc = "enrich"
  /\ i \in DOMAIN req[r].units
  /\ Unit(r, i).pc = "summaryRead"
  /\ LET u == Unit(r, i)
         d == u.data[1]
         hit == IF req[r].filters = NoFilters THEN SelectSummary(d.place_id, u.since) ELSE <<>>
     IN  IF hit # <<>>
           THEN SetUnit(r, i, Returned([u EXCEPT !.ai = hit], i))
         ELSE IF Len(d.reviews) > 0 /\ Len(ReviewTexts(d.reviews)) > 0
           THEN SetUnit(r, i, [u EXCEPT !.pc = "gemini", !.nGemini = @ + 1])
         ELSE SetUnit(r, i, Returned(u, i))
  /\ UNCHANGED <<now, ticks, restaurants, summaries>>

\* The summary cache answers: a hit is the summary; on a miss the generator is
\* called when some review text qualifies, otherwise the unit returns.
SummaryLookup(r, i) ==
  /\ req[r].pc = "enrich"
  /\ i \in DOMAIN req[r].units
  /\ Unit(r, i).pc = "summaryRead"
  /\ LET u == Unit(r, i)
         d == u.data[1]
         hit == SelectSummary(d.place_id, u.since)
     IN  IF hit # <<>>
           THEN SetUnit(r, i, Returned([u EXCEPT !.ai = hit], i))
         ELSE IF Len(d.reviews) > 0 /\ Len(ReviewTexts(d.reviews)) > 0
           THEN SetUnit(r, i, [u EXCEPT !.pc = "gemini", !.nGemini = @ + 1])
         ELSE SetUnit(r, i, Returned(u, i))
  /\ UNCHANGED <<now, ticks, restaurants, summaries>>

\* The summary cache query fails: data is null, and the handler goes on as
\* after a miss.
SummaryLookupError(r, i) ==
  /\ req[r].pc = "enrich"
  /\ i \in DOMAIN req[r].units
  /\ Unit(r, i).pc = "summaryRead"
  /\ LET u == [Unit(r, i) EXCEPT !.faults = @ \cup {"summaryRead"}]
         d == u.data[1]
     IN  IF Len(d.reviews) > 0 /\ Len(ReviewTexts(d.reviews)) > 0
           THEN SetUnit(r, i, [u EXCEPT !.pc = "gemini", !.nGemini = @ + 1])
           ELSE SetUnit(r, i, Returned(u, i))
  /\ UNCHANGED <<now, ticks, restaurants, summaries>>

\* Math.min and Math.max: NaN (and undefined, which converts to NaN) wins.
JsMin(a, b) == IF a = Undef \/ b = Undef THEN Undef ELSE Min(a, b)
JsMax(a, b) == IF a = Undef \/ b = Undef THEN Undef ELSE Max(a, b)

\* Array.isArray(x) ? x : []
ListOrEmpty(x) == IF x.array THEN x.items ELSE <<>>

\* The record built from the parsed analysis.
BuildAiSummary(analysis, t) ==
  [place_id |-> analysis.place_id,
   rank_score |-> JsMax(0, JsMin(MaxRankScore, analysis.rank_score)),
   short_summary |-> analysis.short_summary,
   pros |-> ListOrEmpty(analysis.pros),
   cons |-> ListOrEmpty(analysis.cons),
   confidence |-> JsMax(0, JsMin(MaxConfidence, analysis.confidence)),
   generated_at |-> t]

\* The generator's text is a sequence of tokens: code-fence markers, prose, and
\* JSON values (null, or an object carrying the analysis).
IsFence(tok) == tok.tok \in {"fence", "fencejson"}

\* responseText.replace(/```json\n?/g, '').replace(/```\n?/g, '').trim()
CleanJson(text) == SelectSeq(text, LAMBDA tok : ~IsFence(tok))

\* JSON.parse: exactly one JSON value and nothing else, or a SyntaxError.
JsonParses(clean) == Len(clean) = 1 /\ clean[1].tok \in {"null", "object"}

\* A variant in which a parse failure escapes the unit and drops the candidate.
ParseFailureDrops(u, i) == [u EXCEPT !.pc = "finished", !.parseFailed = TRUE]

\* catch (parseError): a warning is logged and the unit goes on without a summary.
ParseFailure(u, i) == Returned([u EXCEPT !.parseFailed = TRUE], i)

\* The generator's response arrives.
GeminiReply(r, i, reply) ==
  /\ req[r].pc = "enrich"
  /\ i \in DOMAIN req[r].units
  /\ Unit(r, i).pc = "gemini"
  /\ LET u == Unit(r, i)
         clean == CleanJson(reply.text)
     IN  IF reply.kind = "throw"
           \* fetch or geminiResponse.json() rejects: catch (geminiError)
           THEN SetUnit(r, i, Returned(u, i))
         ELSE IF reply.kind = "nocandidates"
           THEN SetUnit(r, i, Returned(u, i))
         ELSE IF ~JsonParses(clean)
           THEN SetUnit(r, i, ParseFailure(u, i))
         ELSE IF clean[1].tok = "null"
           \* reading analysis.place_id of null throws inside the same try
           THEN SetUnit(r, i, Returned(u, i))
         ELSE SetUnit(r, i, [u EXCEPT
                !.pc = "summaryWrite", !.nSummaryWrites = @ + 1,
                !.parsed = <<clean[1].obj>>,
                !.ai = <<BuildAiSummary(clean[1].obj, now)>>])
  /\ UNCHANGED <<now, ticks, restaurants, summaries>>

\* The summaries upsert is executed and the unit returns.
SummaryWrite(r, i) ==
  /\ req[r].pc = "enrich"
  /\ i \in DOMAIN req[r].units
  /\ Unit(r, i).pc = "summaryWrite"
  /\ summaries' = UpsertSummary(summaries, Unit(r, i).ai[1])
  /\ SetUnit(r, i, Returned(Unit(r, i), i))
  /\ UNCHANGED <<now, ticks, restaurants>>

\* ------------------------------------------------ stages 4 to 6: rank, respond

\* Ten times the unrounded score, so that halves stay integers.
ScoreTenths(restaurant, maxPrice) ==
  (IF Truthy(restaurant.rating) THEN restaurant.rating * 10 ELSE 0)
  + (IF restaurant.ai_summary # <<>> /\ Truthy(restaurant.ai_summary[1].rank_score)
       THEN restaurant.ai_summary[1].rank_score * 3 ELSE 0)
  + (IF Truthy(restaurant.price_level)
       THEN (20 - 5 * Abs(restaurant.price_level - maxPrice)) * 10 ELSE 0)

\* Math.round(totalScore): the nearest integer, halves upwards.
TotalScore(restaurant, maxPrice) == (ScoreTenths(restaurant, maxPrice) + 5) \div 10

Scored(restaurant, maxPrice) ==
  [place_id |-> restaurant.place_id, rating |-> restaurant.rating,
   price_level |-> restaurant.price_level, ai_summary |-> restaurant.ai_summary,
   ord |-> restaurant.ord, total_score |-> TotalScore(restaurant, maxPrice)]

\* A variant that puts x in front of the elements it ties with.
RECURSIVE InsertBeforeTies(_, _)
InsertBeforeTies(sorted, x) ==
  IF sorted = <<>> THEN <<x>>
  ELSE IF Head(sorted).total_score > x.total_score
    THEN <<Head(sorted)>> \o InsertBeforeTies(Tail(sorted), x)
    ELSE <<x>> \o sorted

\* x placed behind every element whose score is not smaller.
RECURSIVE InsertStable(_, _)
InsertStable(sorted, x) ==
  IF sorted = <<>> THEN <<x>>
  ELSE IF Head(sorted).total_score >= x.total_score
    THEN <<Head(sorted)>> \o InsertStable(Tail(sorted), x)
    ELSE <<x>> \o sorted

\* Array.prototype.sort((a, b) => b.total_score - a.total_score): stable.
RECURSIVE SortByScore(_)
SortByScore(s) ==
  IF s = <<>> THEN <<>>
  ELSE InsertStable(SortByScore(SubSeq(s, 1, Len(s) - 1)), s[Len(s)])

\* (await Promise.all(restaurantPromises)).filter(Boolean)
RECURSIVE Survivors(_)
Survivors(units) ==
  IF units = <<>> THEN <<>>
  ELSE Head(units).result \o Survivors(Tail(units))

RECURSIVE MapScored(_, _)
MapScored(s, maxPrice) ==
  IF s = <<>> THEN <<>>
  ELSE <<Scored(Head(s), maxPrice)>> \o MapScored(Tail(s), maxPrice)

\* A variant that does not wait: units still running count as dropped.
JoinEarly(r) ==
  /\ req[r].pc = "enrich"
  /\ LET ranked == SortByScore(MapScored(Survivors(req[r].units), req[r].max_price))
     IN  req' = [req EXCEPT
           ![r].pc = "done",
           ![r].response = <<[status |-> StatusOk, restaurants |-> ranked,
                              search_location |-> req[r].coordinates[1],
                              total_found |-> Len(ranked)]>>]
  /\ UNCHANGED <<now, ticks, restaurants, summaries>>

\* A variant whose total_found counts the candidates, not the restaurants.
JoinCountsCandidates(r) ==
  /\ req[r].pc = "enrich"
  /\ \A i \in DOMAIN req[r].units : Unit(r, i).pc = "finished"
  /\ LET ranked == SortByScore(MapScored(Survivors(req[r].units), req[r].max_price))
     IN  req' = [req EXCEPT
           ![r].pc = "done",
           ![r].response = <<[status |-> StatusOk, restaurants |-> ranked,
                              search_location |-> req[r].coordinates[1],
                              total_found |-> Len(req[r].units)]>>]
  /\ UNCHANGED <<now, ticks, restaurants, summaries>>

\* A variant that goes on only when every unit has returned a record.
JoinAwaitsRecords(r) ==
  /\ req[r].pc = "enrich"
  /\ \A i \in DOMAIN req[r].units : Unit(r, i).pc = "finished" /\ Unit(r, i).result # <<>>
  /\ LET ranked == SortByScore(MapScored(Survivors(req[r].units), req[r].max_price))
     IN  req' = [req EXCEPT
           ![r].pc = "done",
           ![r].response = <<[status |-> StatusOk, restaurants |-> ranked,
                              search_location |-> req[r].coordinates[1],
                              total_found |-> Len(ranked)]>>]
  /\ UNCHANGED <<now, ticks, restaurants, summaries>>

\* Every unit has returned: the survivors are scored, sorted and sent.
Join(r) ==
  /\ req[r].pc = "enrich"
  /\ \A i \in DOMAIN req[r].units : Unit(r, i).pc = "finished"
  /\ LET ranked == SortByScore(MapScored(Survivors(req[r].units), req[r].max_price))
     IN  req' = [req EXCEPT
           ![r].pc = "done",
           ![r].response = <<[status |-> StatusOk, restaurants |-> ranked,
                              search_location |-> req[r].coordinates[1],
                              total_found |-> Len(ranked)]>>]
  /\ UNCHANGED <<now, ticks, restaurants, summaries>>

\* The response has been sent and the invocation is over.
Finish(r) ==
  /\ req[r].pc = "done"
  /\ req' = [req EXCEPT ![r] = IdleReq]
  /\ UNCHANGED <<now, ticks, restaurants, summaries>>

\* Time passes.
Tick(d) ==
  /\ ticks < MaxTicks
  /\ now' = now + d
  /\ ticks' = ticks + 1
  /\ UNCHANGED <<restaurants, summaries, req>>

\* ------------------------------------------------------------------ inputs

SpecLocations == {<<"1", ",", "1">>, <<"a">>}
SpecMaxPrices == {2}

\* Sequences of distinct elements of S of length at most n.
RECURSIVE DistinctSeqs(_, _)
DistinctSeqs(S, n) ==
  IF n = 0 THEN {<<>>}
  ELSE LET shorter == DistinctSeqs(S, n - 1)
       IN  {q \in shorter \cup {Append(t, x) : t \in shorter, x \in S} :
              \A a, b \in DOMAIN q : a # b => q[a] # q[b]}

\* Places-search responses naming at most n of the places P.
SearchReplies(P, n) ==
  {[status |-> "OK", results |-> c] : c \in DistinctSeqs(P, n)}
  \cup {[status |-> st, results |-> <<>>] : st \in {"ZERO_RESULTS", "REQUEST_DENIED"}}

SpecReviews == {<<>>, <<0, 20>>, <<20, 21>>}

\* Place-details responses for place p; the provider returns the requested
\* fields, which do not name place_id, so result.place_id may be missing.
DetailsReplies(p, reviewLists) ==
  {[status |-> "NOT_FOUND", place_id |-> NoVal, rating |-> Undef, price_level |-> Undef,
    reviews |-> <<>>]}
  \cup {[status |-> "OK", place_id |-> id, rating |-> 45, price_level |-> 2, reviews |-> rv] :
          id \in {p, NoVal}, rv \in reviewLists}

List(items) == [array |-> TRUE, items |-> items]
NotAList == [array |-> FALSE, items |-> <<>>]

NoAnalysis ==
  [place_id |-> NoVal, rank_score |-> Undef, short_summary |-> NoVal,
   pros |-> NotAList, cons |-> NotAList,
   dishes_to_try |-> NotAList, matching_menu_items |-> NotAList, confidence |-> Undef]

Fence == [tok |-> "fence", obj |-> NoAnalysis]
FenceJson == [tok |-> "fencejson", obj |-> NoAnalysis]
Prose == [tok |-> "prose", obj |-> NoAnalysis]
JsonNull == [tok |-> "null", obj |-> NoAnalysis]
JsonObject(a) == [tok |-> "object", obj |-> a]

\* What the generator answers in Spec for a prompt that names place_id id.
SpecAnalyses(id) ==
  {[place_id |-> id, rank_score |-> 150, short_summary |-> "s",
    pros |-> List(<<"a">>), cons |-> NotAList,
    dishes_to_try |-> List(<<"d">>), matching_menu_items |-> List(<<>>),
    confidence |-> 150]}

\* In SpecBatch the generator may also name another place in its answer.
BatchAnalyses(id) ==
  SpecAnalyses(id)
  \cup {[place_id |-> PlaceNames[2], rank_score |-> 80, short_summary |-> "t",
          pros |-> List(<<>>), cons |-> List(<<"b">>),
          dishes_to_try |-> List(<<"d">>), matching_menu_items |-> List(<<"m">>),
          confidence |-> 50]}

Texts(analyses) ==
  {<<Prose>>, <<JsonNull>>}
  \cup UNION {{<<JsonObject(a)>>, <<FenceJson, JsonObject(a), Fence>>, <<Prose, JsonObject(a)>>} :
                a \in analyses}

GeminiReplies(analyses) ==
  {[kind |-> "throw", text |-> <<>>], [kind |-> "nocandidates", text |-> <<>>]}
  \cup {[kind |-> "text", text |-> t] : t \in Texts(analyses)}

TickSteps == {1000, DayMs}

\* The prompt's place_id: `${restaurantData.place_id}`.
PromptPlace(r, i) == FilterText(Unit(r, i).data[1].place_id)

\* ----------------------------------------------------------- specifications

\* Spec: requests one after the other for one venue, while time passes.
Next ==
  \/ \E r \in Slots, loc \in SpecLocations, mp \in SpecMaxPrices, k \in BOOLEAN :
       Receive(r, loc, mp, NoFilters, k)
  \/ \E r \in Slots, reply \in GeocodeReplies : GeocodeReply(r, reply)
  \/ \E r \in Slots, reply \in SearchReplies({PlaceNames[1]}, 1) : SearchReply(r, reply)
  \/ \E r \in Slots : \E i \in DOMAIN req[r].units : VenueLookup(r, i)
  \/ \E r \in Slots : \E i \in DOMAIN req[r].units :
       \E reply \in DetailsReplies(Unit(r, i).place, SpecReviews) : DetailsReply(r, i, reply)
  \/ \E r \in Slots : \E i \in DOMAIN req[r].units : VenueWrite(r, i)
  \/ \E r \in Slots : \E i \in DOMAIN req[r].units : SummaryLookup(r, i)
  \/ \E r \in Slots : \E i \in DOMAIN req[r].units :
       /\ Unit(r, i).pc = "gemini"
       /\ \E reply \in GeminiReplies(SpecAnalyses(PromptPlace(r, i))) : GeminiReply(r, i, reply)
  \/ \E r \in Slots : \E i \in DOMAIN req[r].units : SummaryWrite(r, i)
  \/ \E r \in Slots : Join(r)
  \/ \E r \in Slots : Finish(r)
  \/ \E d \in TickSteps : Tick(d)

Spec == Init /\ [][Next]_vars

\* SpecBatch: requests whose search returns up to MaxCands venues, enriched
\* concurrently; the clock stands still.
NextBatch ==
  \/ \E r \in Slots, loc \in SpecLocations, mp \in SpecMaxPrices, k \in BOOLEAN :
       Receive(r, loc, mp, NoFilters, k)
  \/ \E r \in Slots, reply \in GeocodeReplies : GeocodeReply(r, reply)
  \/ \E r \in Slots, reply \in SearchReplies(PlaceIds, MaxCands) : SearchReply(r, reply)
  \/ \E r \in Slots : \E i \in DOMAIN req[r].units : VenueLookup(r, i)
  \/ \E r \in Slots : \E i \in DOMAIN req[r].units :
       \E reply \in DetailsReplies(Unit(r, i).place, SpecReviews) : DetailsReply(r, i, reply)
  \/ \E r \in Slots : \E i \in DOMAIN req[r].units : VenueWrite(r, i)
  \/ \E r \in Slots : \E i \in DOMAIN req[r].units : SummaryLookup(r, i)
  \/ \E r \in Slots : \E i \in DOMAIN req[r].units :
       /\ Unit(r, i).pc = "gemini"
       /\ \E reply \in GeminiReplies(BatchAnalyses(PromptPlace(r, i))) : GeminiReply(r, i, reply)
  \/ \E r \in Slots : \E i \in DOMAIN req[r].units : SummaryWrite(r, i)
  \/ \E r \in Slots : Join(r)
  \/ \E r \in Slots : Finish(r)

SpecBatch == Init /\ [][NextBatch]_vars

\* SpecLoc: one request for every location string of at most MaxLen characters;
\* the search finds no venue.
Strings(n) == UNION {[1..k -> Chars] : k \in 0..n}

NextLoc ==
  \/ \E r \in Slots :
       /\ req[r].pc = "idle"
       /\ \E loc \in Strings(MaxLen) : Receive(r, loc, 4, NoFilters, TRUE)
  \/ \E r \in Slots, reply \in GeocodeReplies : GeocodeReply(r, reply)
  \/ \E r \in Slots : SearchReply(r, [status |-> "OK", results |-> <<>>])
  \/ \E r \in Slots : Join(r)

SpecLoc == Init /\ [][NextLoc]_vars

\* SpecGen: one request for one venue with every shape of generator answer.
GenReviews == {<<>>, <<0>>, <<20>>, <<21>>, <<20, 21>>}

GenAnalyses(id) ==
  {[place_id |-> pid, rank_score |-> rk, short_summary |-> sh,
    pros |-> pr, cons |-> NotAList,
    dishes_to_try |-> ds, matching_menu_items |-> ds, confidence |-> cf] :
     pid \in {id, NoVal}, rk \in {Undef, -5, 0, 80, 150}, sh \in {"s", NoVal},
     pr \in {List(<<"a">>), NotAList}, ds \in {List(<<"d">>), NotAList},
     cf \in {Undef, -50, 50, 150}}

NextGen ==
  \/ \E r \in Slots : Receive(r, <<"1", ",", "1">>, 2, NoFilters, TRUE)
  \/ \E r \in Slots : SearchReply(r, [status |-> "OK", results |-> <<PlaceNames[1]>>])
  \/ \E r \in Slots : \E i \in DOMAIN req[r].units : VenueLookup(r, i)
  \/ \E r \in Slots : \E i \in DOMAIN req[r].units :
       \E reply \in DetailsReplies(Unit(r, i).place, GenReviews) : DetailsReply(r, i, reply)
  \/ \E r \in Slots : \E i \in DOMAIN req[r].units : VenueWrite(r, i)
  \/ \E r \in Slots : \E i \in DOMAIN req[r].units : SummaryLookup(r, i)
  \/ \E r \in Slots : \E i \in DOMAIN req[r].units :
       /\ Unit(r, i).pc = "gemini"
       /\ \E reply \in GeminiReplies(GenAnalyses(PromptPlace(r, i))) : GeminiReply(r, i, reply)
  \/ \E r \in Slots : \E i \in DOMAIN req[r].units : SummaryWrite(r, i)
  \/ \E r \in Slots : Join(r)

SpecGen == Init /\ [][NextGen]_vars

\* SpecRank: a request whose units have all returned, with every combination
\* of rating, price level and rank score for one survivor, and lists of up to
\* MaxRanked candidates over a few outcomes that tie.
Outcome(dropped, rating, price, rank) ==
  [dropped |-> dropped, rating |-> rating, price |-> price, rank |-> rank]

WideOutcomes ==
  {Outcome(FALSE, rt, pl, rk) :
     rt \in {Undef, 0, 30, 43, 45, 50}, pl \in {Undef, 0, 1, 2, 3, 4},
     rk \in {Undef, 0, 45, 80, 85, 100}}

NarrowOutcomes ==
  {Outcome(TRUE, Undef, Undef, Undef), Outcome(FALSE, 30, Undef, 80),
   Outcome(FALSE, 50, Undef, Undef), Outcome(FALSE, 50, 2, Undef),
   Outcome(FALSE, 30, 2, 80)}

\* A unit that has returned with outcome o for the i-th candidate.
FinishedUnit(o, i) ==
  LET d == [place_id |-> PlaceNames[i], rating |-> o.rating, price_level |-> o.price,
            reviews |-> IF o.rank = Undef THEN <<>> ELSE <<21>>, cached_at |-> 0]
      ai == IF o.rank = Undef THEN <<>>
            ELSE <<[place_id |-> PlaceNames[i], rank_score |-> o.rank, short_summary |-> "s",
                    pros |-> <<>>, cons |-> <<>>, confidence |-> 50, generated_at |-> 0]>>
  IN  [place |-> PlaceNames[i], pc |-> "finished", since |-> 0 - DayMs,
       data |-> IF o.dropped THEN <<>> ELSE <<d>>,
       ai |-> IF o.dropped THEN <<>> ELSE ai,
       result |-> IF o.dropped THEN <<>> ELSE <<BuildResult(d, ai, i)>>,
       lookupAt |-> 0, seenVenue |-> <<>>, nDetails |-> 1,
       nGemini |-> IF o.dropped \/ o.rank = Undef THEN 0 ELSE 1,
       parseFailed |-> FALSE,
       nSummaryWrites |-> IF o.dropped \/ o.rank = Undef THEN 0 ELSE 1,
       detailsStatus |-> IF o.dropped THEN "NOT_FOUND" ELSE "OK",
       nVenueWrites |-> IF o.dropped THEN 0 ELSE 1,
       faults |-> {}, parsed |-> <<>>]

RankReq(outcomes, mp) ==
  [IdleReq EXCEPT !.pc = "enrich", !.location = <<"1", ",", "1">>, !.max_price = mp,
                  !.coordinates = <<LiteralParts(<<"1", ",", "1">>)>>,
                  !.units = [i \in 1..Len(outcomes) |-> FinishedUnit(outcomes[i], i)],
                  !.searchCalls = 1, !.searchStatus = "OK"]

RankInputs ==
  {<<<<o>>, mp>> : o \in WideOutcomes, mp \in 0..4}
  \cup {<<os, 2>> : os \in UNION {[1..k -> NarrowOutcomes] : k \in 2..MaxRanked}}

InitRank ==
  /\ now = 0
  /\ ticks = 0
  /\ restaurants = {}
  /\ summaries = {}
  /\ \E in \in RankInputs : req = [r \in Slots |-> RankReq(in[1], in[2])]

NextRank == \E r \in Slots : Join(r)

SpecRank == InitRank /\ [][NextRank]_vars

\* SpecFail: requests for up to MaxCands venues in which the cache queries may
\* fail and the details call may throw, besides every provider answer.
FailReviews == {<<>>, <<21>>}

NextFail ==
  \/ \E r \in Slots : Receive(r, <<"1", ",", "1">>, 2, NoFilters, TRUE)
  \/ \E r \in Slots, reply \in SearchReplies(PlaceIds, MaxCands) : SearchReply(r, reply)
  \/ \E r \in Slots : \E i \in DOMAIN req[r].units : VenueLookup(r, i)
  \/ \E r \in Slots : \E i \in DOMAIN req[r].units : VenueLookupError(r, i)
  \/ \E r \in Slots : \E i \in DOMAIN req[r].units :
       \E reply \in DetailsReplies(Unit(r, i).place, FailReviews) : DetailsReply(r, i, reply)
  \/ \E r \in Slots : \E i \in DOMAIN req[r].units : DetailsThrows(r, i)
  \/ \E r \in Slots : \E i \in DOMAIN req[r].units : VenueWrite(r, i)
  \/ \E r \in Slots : \E i \in DOMAIN req[r].units : SummaryLookup(r, i)
  \/ \E r \in Slots : \E i \in DOMAIN req[r].units : SummaryLookupError(r, i)
  \/ \E r \in Slots : \E i \in DOMAIN req[r].units :
       /\ Unit(r, i).pc = "gemini"
       /\ \E reply \in GeminiReplies(SpecAnalyses(PromptPlace(r, i))) : GeminiReply(r, i, reply)
  \/ \E r \in Slots : \E i \in DOMAIN req[r].units : SummaryWrite(r, i)
  \/ \E r \in Slots : Join(r)
  \/ \E r \in Slots : Finish(r)

SpecFail == Init /\ [][NextFail]_vars

\* SpecRace: two invocations of the handler at the same time, each for the
\* same venue, while time passes.
RaceSlots == {1, 2}

RaceReviews == {<<>>, <<21>>}

InitRace ==
  /\ now = 0
  /\ ticks = 0
  /\ restaurants = {}
  /\ summaries = {}
  /\ req = [r \in RaceSlots |-> IdleReq]

NextRace ==
  \/ \E r \in RaceSlots : Receive(r, <<"1", ",", "1">>, 2, NoFilters, TRUE)
  \/ \E r \in RaceSlots : SearchReply(r, [status |-> "OK", results |-> <<PlaceNames[1]>>])
  \/ \E r \in RaceSlots : \E i \in DOMAIN req[r].units : VenueLookup(r, i)
  \/ \E r \in RaceSlots : \E i \in DOMAIN req[r].units :
       \E reply \in DetailsReplies(Unit(r, i).place, RaceReviews) : DetailsReply(r, i, reply)
  \/ \E r \in RaceSlots : \E i \in DOMAIN req[r].units : VenueWrite(r, i)
  \/ \E r \in RaceSlots : \E i \in DOMAIN req[r].units : SummaryLookup(r, i)
  \/ \E r \in RaceSlots : \E i \in DOMAIN req[r].units :
       /\ Unit(r, i).pc = "gemini"
       /\ \E reply \in GeminiReplies(SpecAnalyses(PromptPlace(r, i))) : GeminiReply(r, i, reply)
  \/ \E r \in RaceSlots : \E i \in DOMAIN req[r].units : SummaryWrite(r, i)
  \/ \E r \in RaceSlots : Join(r)
  \/ Tick(1000)

SpecRace == InitRace /\ [][NextRace]_vars

\* SpecCap: one request whose search names up to MaxResults venues; the units
\* run one after the other, and only the first and the last candidate the
\* handler takes meet every kind of details and generator response.
CapResults == {[i \in 1..n |-> PlaceNames[i]] : n \in 0..Min(MaxResults, Len(PlaceNames))}

CapReviews(i) == IF i \in {1, CandidateCap} THEN {<<>>, <<21>>} ELSE {<<>>}

CapDetailsReplies(r, i) ==
  IF i \in {1, CandidateCap}
    THEN DetailsReplies(Unit(r, i).place, CapReviews(i))
    ELSE {[status |-> "OK", place_id |-> Unit(r, i).place, rating |-> 45,
           price_level |-> 2, reviews |-> <<>>]}

\* The unit whose turn it is: every unit before it has returned.
InTurn(r, i) == \A j \in 1..(i - 1) : Unit(r, j).pc = "finished"

NextCap ==
  \/ \E r \in Slots : Receive(r, <<"1", ",", "1">>, 2, NoFilters, TRUE)
  \/ \E r \in Slots, found \in CapResults :
       SearchReply(r, [status |-> "OK", results |-> found])
  \/ \E r \in Slots : \E i \in DOMAIN req[r].units : InTurn(r, i) /\ VenueLookup(r, i)
  \/ \E r \in Slots : \E i \in DOMAIN req[r].units :
       /\ InTurn(r, i)
       /\ \E reply \in CapDetailsReplies(r, i) : DetailsReply(r, i, reply)
  \/ \E r \in Slots : \E i \in DOMAIN req[r].units : InTurn(r, i) /\ VenueWrite(r, i)
  \/ \E r \in Slots : \E i \in DOMAIN req[r].units : InTurn(r, i) /\ SummaryLookup(r, i)
  \/ \E r \in Slots : \E i \in DOMAIN req[r].units :
       /\ InTurn(r, i)
       /\ Unit(r, i).pc = "gemini"
       /\ \E reply \in GeminiReplies(SpecAnalyses(PromptPlace(r, i))) : GeminiReply(r, i, reply)
  \/ \E r \in Slots : \E i \in DOMAIN req[r].units : InTurn(r, i) /\ SummaryWrite(r, i)
  \/ \E r \in Slots : Join(r)

SpecCap == Init /\ [][NextCap]_vars

\* SpecLive: a request for up to MaxCands venues, with
\* every provider answer and every failure of a call; each call that is under
\* way is eventually answered, and the handler goes on when it can.
Answers(r) ==
  \/ \E reply \in GeocodeReplies : GeocodeReply(r, reply)
  \/ \E reply \in SearchReplies(PlaceIds, MaxCands) : SearchReply(r, reply)
  \/ \E i \in DOMAIN req[r].units : VenueLookup(r, i)
  \/ \E i \in DOMAIN req[r].units : VenueLookupError(r, i)
  \/ \E i \in DOMAIN req[r].units :
       \E reply \in DetailsReplies(Unit(r, i).place, FailReviews) : DetailsReply(r, i, reply)
  \/ \E i \in DOMAIN req[r].units : DetailsThrows(r, i)
  \/ \E i \in DOMAIN req[r].units : VenueWrite(r, i)
  \/ \E i \in DOMAIN req[r].units : SummaryLookup(r, i)
  \/ \E i \in DOMAIN req[r].units : SummaryLookupError(r, i)
  \/ \E i \in DOMAIN req[r].units :
       /\ Unit(r, i).pc = "gemini"
       /\ \E reply \in GeminiReplies(SpecAnalyses(PromptPlace(r, i))) : GeminiReply(r, i, reply)
  \/ \E i \in DOMAIN req[r].units : SummaryWrite(r, i)

NextLive ==
  \/ \E r \in Slots, loc \in SpecLocations, k \in BOOLEAN : Receive(r, loc, 2, NoFilters, k)
  \/ \E r \in Slots : Answers(r)
  \/ \E r \in Slots : Join(r)

Fairness == \A r \in Slots : WF_vars(Answers(r)) /\ WF_vars(Join(r))

SpecLive == Init /\ [][NextLive]_vars /\ Fairness

\* SpecFilter: two requests for the same venue, the second after the first has
\* been answered, with every choice of filters; time passes between the
\* requests; the generator's summary names the filters of the prompt it answers.
FilterSets ==
  {NoFilters,
   [veg_only |-> TRUE, jain_food |-> FALSE, menu |-> <<>>],
   [veg_only |-> FALSE, jain_food |-> TRUE, menu |-> <<>>],
   [veg_only |-> FALSE, jain_food |-> FALSE, menu |-> <<"d">>]}

FilterLabel(f) ==
  IF f.veg_only THEN "veg" ELSE IF f.jain_food THEN "jain"
  ELSE IF f.menu # <<>> THEN "menu" ELSE "any"

FilterAnalyses(id, f) ==
  {[place_id |-> id, rank_score |-> 80, short_summary |-> FilterLabel(f),
    pros |-> List(<<"a">>), cons |-> List(<<>>),
    dishes_to_try |-> List(f.menu), matching_menu_items |-> List(f.menu),
    confidence |-> 50]}

FilterReviews == {<<>>, <<21>>}

\* No request is under way.
Resting == \A r \in RaceSlots : req[r].pc \in {"idle", "done"}

\* The earlier requests have been answered.
InOrder(r) == \A q \in RaceSlots : q < r => req[q].pc = "done"

NextFilter ==
  \/ \E r \in RaceSlots, f \in FilterSets :
       InOrder(r) /\ Receive(r, <<"1", ",", "1">>, 2, f, TRUE)
  \/ \E r \in RaceSlots : SearchReply(r, [status |-> "OK", results |-> <<PlaceNames[1]>>])
  \/ \E r \in RaceSlots : \E i \in DOMAIN req[r].units : VenueLookup(r, i)
  \/ \E r \in RaceSlots : \E i \in DOMAIN req[r].units :
       \E reply \in DetailsReplies(Unit(r, i).place, FilterReviews) : DetailsReply(r, i, reply)
  \/ \E r \in RaceSlots : \E i \in DOMAIN req[r].units : VenueWrite(r, i)
  \/ \E r \in RaceSlots : \E i \in DOMAIN req[r].units : SummaryLookup(r, i)
  \/ \E r \in RaceSlots : \E i \in DOMAIN req[r].units :
       /\ Unit(r, i).pc = "gemini"
       /\ \E reply \in GeminiReplies(FilterAnalyses(PromptPlace(r, i), req[r].filters)) :
            GeminiReply(r, i, reply)
  \/ \E r \in RaceSlots : \E i \in DOMAIN req[r].units : SummaryWrite(r, i)
  \/ \E r \in RaceSlots : Join(r)
  \/ \E d \in TickSteps : Resting /\ Tick(d)

SpecFilter == InitRace /\ [][NextFilter]_vars

\* ------------------------------------------------------------- properties

Units(r) == DOMAIN req[r].units

\* Age of the venue row a unit saw, at the time it sent its venue lookup.
SeenAge(u) == u.lookupAt - u.seenVenue[1].cached_at

\* C1: a unit whose venue lookup met a row of its place written less than 24
\* hours before the lookup sends no place-details request and builds its
\* result from that row.
C1_FreshVenueIsNotFetched ==
  \A r \in Slots : \A i \in Units(r) :
    LET u == Unit(r, i)
    IN  (u.pc # "venueRead" /\ u.seenVenue # <<>> /\ SeenAge(u) >= 0 /\ SeenAge(u) < DayMs)
          => /\ u.nDetails = 0
             /\ u.data = u.seenVenue
             /\ u.pc = "finished" =>
                  /\ u.result # <<>>
                  /\ u.result[1].place_id = u.seenVenue[1].place_id
                  /\ u.result[1].rating = u.seenVenue[1].rating
                  /\ u.result[1].price_level = u.seenVenue[1].price_level

C1_Witness ==
  \E r \in Slots : \E i \in Units(r) :
    LET u == Unit(r, i)
    IN  /\ u.pc = "finished" /\ u.seenVenue # <<>>
        /\ SeenAge(u) > 0 /\ SeenAge(u) < DayMs
        /\ u.nDetails = 0 /\ u.result # <<>>

\* C2: a unit whose venue lookup met a row written 24 hours and one second
\* before the lookup sends a place-details request, and once that request has
\* succeeded and the upsert has run the table holds a row for the place
\* stamped with the time the details arrived.
C2_StaleVenueIsRefetched ==
  \A r \in Slots : \A i \in Units(r) :
    LET u == Unit(r, i)
    IN  (u.pc # "venueRead" /\ u.seenVenue # <<>> /\ SeenAge(u) = DayMs + 1000)
          => /\ u.nDetails = 1
             /\ (u.pc \in {"summaryRead", "gemini", "summaryWrite", "finished"} /\ u.data # <<>>)
                  => \E row \in restaurants :
                       /\ row.place_id = u.place
                       /\ row.cached_at = u.data[1].cached_at
                       /\ row.cached_at >= u.lookupAt

\* No review text is longer than 20 characters.
NoQualifyingReview(reviews) == \A k \in DOMAIN reviews : reviews[k] <= 20

\* The summary rows that answer a finished unit's summary lookup.
SummaryHits(u) ==
  {row \in summaries : /\ row.place_id = FilterText(u.data[1].place_id)
                       /\ row.generated_at >= u.since}

\* The unit's venue is in the response with the ai_summary of the unit's result.
InResponse(r, i) ==
  req[r].pc = "done" =>
    \E k \in DOMAIN req[r].response[1].restaurants :
      /\ req[r].response[1].restaurants[k].ord = i
      /\ req[r].response[1].restaurants[k].ai_summary = Unit(r, i).result[1].ai_summary

C3_PersistedSummaryInRange ==
  \A row \in summaries :
    /\ row.rank_score # Undef /\ 0 <= row.rank_score /\ row.rank_score <= 100
    /\ row.confidence # Undef /\ 0 <= row.confidence /\ row.confidence <= 100

\* The response of a request that has been answered.
Response(r) == req[r].response[1]

Answered(r) == req[r].pc = "done" /\ Response(r).status = StatusOk

\* Ten times the score of the documented formula:
\* rating / 5 * 50 + rank / 100 * 30 + price_fit * 20, where price_fit is
\* max(0, 1 - |price_level - max_price| / 4), and 0 without a price_level.
DocumentedScoreTenths(x, maxPrice) ==
  (IF x.rating = Undef THEN 0 ELSE x.rating * 10)
  + (IF x.ai_summary = <<>> \/ x.ai_summary[1].rank_score = Undef
       THEN 0 ELSE x.ai_summary[1].rank_score * 3)
  + (IF x.price_level = Undef
       THEN 0 ELSE Max(0, 4 - Abs(x.price_level - maxPrice)) * 50)

\* C5: the total_score of every venue in a response equals the documented
\* formula rating/5*50 + rank/100*30 + price_fit*20.
C5_TotalScoreFormula ==
  \A r \in Slots :
    Answered(r) =>
      \A k \in DOMAIN Response(r).restaurants :
        Response(r).restaurants[k].total_score * 10
          = DocumentedScoreTenths(Response(r).restaurants[k], req[r].max_price)

\* The candidates that returned a record, by position in the search results.
Kept(r) == {i \in Units(r) : Unit(r, i).result # <<>>}

\* C6: the venues of a response are in non-increasing order of total_score,
\* venues of equal score keep the order the search returned them in, and the
\* response holds exactly the candidates that returned a record.
C6_SortedStable ==
  \A r \in Slots :
    Answered(r) =>
      LET rs == Response(r).restaurants
      IN  /\ \A a, b \in DOMAIN rs : a < b => rs[a].total_score >= rs[b].total_score
          /\ \A a, b \in DOMAIN rs :
               (a < b /\ rs[a].total_score = rs[b].total_score) => rs[a].ord < rs[b].ord
          /\ {rs[k].ord : k \in DOMAIN rs} = Kept(r)
          /\ Len(rs) = Cardinality(Kept(r))

C6_Witness ==
  \E r \in Slots :
    /\ Answered(r)
    /\ LET rs == Response(r).restaurants
       IN  /\ Len(rs) = 3
           /\ rs[1].total_score > rs[2].total_score
           /\ rs[2].total_score = rs[3].total_score
           /\ rs[1].ord = 3

\* C7: a candidate whose generator text failed to parse returns its record
\* without ai_summary and writes no summary row; the other candidates return
\* the records their own data gives, and the request is answered with status
\* 200 and every returned record.
C7_ParseFailureIsIsolated ==
  \A r \in Slots : \A i \in Units(r) :
    LET u == Unit(r, i)
    IN  u.parseFailed =>
          /\ u.pc = "finished"
          /\ u.result # <<>> /\ u.result[1].ai_summary = <<>>
          /\ u.nSummaryWrites = 0
          /\ \A j \in Units(r) \ {i} :
               (Unit(r, j).pc = "finished" /\ Unit(r, j).data # <<>>)
                 => Unit(r, j).result = <<BuildResult(Unit(r, j).data[1], Unit(r, j).ai, j)>>
          /\ req[r].pc = "done" =>
               /\ Response(r).status = StatusOk
               /\ Response(r).total_found = Cardinality(Kept(r))
               /\ \A j \in Kept(r) :
                    \E k \in DOMAIN Response(r).restaurants :
                      Response(r).restaurants[k]
                        = Scored(Unit(r, j).result[1], req[r].max_price)

C7_Witness ==
  \E r \in Slots : \E i, j \in Units(r) :
    /\ req[r].pc = "done" /\ i # j
    /\ Unit(r, i).parseFailed
    /\ Unit(r, j).nGemini = 1 /\ Unit(r, j).result # <<>>
    /\ Unit(r, j).result[1].ai_summary # <<>>
    /\ Len(Response(r).restaurants) = 2

\* C8: when the places search answered with a status other than OK the request
\* ends with the error response (restaurants empty, total_found 0, a status
\* other than 200, the error naming the provider's status) and no candidate
\* is enriched.
C8_SearchFailureAborts ==
  \A r \in Slots :
    req[r].searchStatus \notin {"none", "OK"} =>
      /\ req[r].pc = "done"
      /\ req[r].units = <<>>
      /\ Response(r).status # StatusOk
      /\ Response(r).restaurants = <<>>
      /\ Response(r).total_found = 0
      /\ Response(r).error.msg = "Places API error"
      /\ Response(r).error.status = req[r].searchStatus

C8_Witness ==
  \E r \in Slots :
    /\ req[r].pc = "done" /\ req[r].searchStatus = "REQUEST_DENIED"
    /\ req[r].searchCalls = 1 /\ Response(r).status = StatusError

\* An optional minus sign, one or more digits, and optionally a point with
\* digits behind it.
IsDecimalText(s) ==
  LET body == IF s # <<>> /\ s[1] = "-" THEN Tail(s) ELSE s
      points == {k \in DOMAIN body : body[k] = "."}
  IN  /\ body # <<>>
      /\ body[1] \in Digits
      /\ Cardinality(points) <= 1
      /\ \A k \in DOMAIN body : body[k] \in Digits \cup {"."}

\* The number a decimal text denotes: sign, integer digits without leading
\* zeros, fraction digits without trailing zeros.
DecimalValue(s) ==
  LET body == IF s[1] = "-" THEN Tail(s) ELSE s
      points == {k \in DOMAIN body : body[k] = "."}
      point == IF points = {} THEN Len(body) + 1 ELSE CHOOSE k \in points : TRUE
      whole == SubSeq(body, 1, point - 1)
      part == SubSeq(body, point + 1, Len(body))
      firstNonZero == {k \in DOMAIN whole : whole[k] # "0"}
      lastNonZero == {k \in DOMAIN part : part[k] # "0"}
      int == IF firstNonZero = {} THEN <<>>
             ELSE SubSeq(whole, CHOOSE k \in firstNonZero : \A m \in firstNonZero : k <= m,
                         Len(whole))
      frac == IF lastNonZero = {} THEN <<>>
              ELSE SubSeq(part, 1, CHOOSE k \in lastNonZero : \A m \in lastNonZero : k >= m)
  IN  [nan |-> FALSE, neg |-> s[1] = "-" /\ (int # <<>> \/ frac # <<>>),
       int |-> int, frac |-> frac]

\* The positions of s at which a comma separates two decimal texts.
LatLngCommas(s) ==
  {k \in DOMAIN s : /\ s[k] = ","
                    /\ IsDecimalText(SubSeq(s, 1, k - 1))
                    /\ IsDecimalText(SubSeq(s, k + 1, Len(s)))}

\* A string with a comma that is not two numbers around one comma.
MalformedCoordinateLike(s) ==
  /\ \E k \in DOMAIN s : s[k] = ","
  /\ \A k \in DOMAIN s :
       s[k] = "," => ~(/\ IsDecimalText(Trim(SubSeq(s, 1, k - 1)))
                       /\ IsDecimalText(Trim(SubSeq(s, k + 1, Len(s)))))

ErrorMsg(r) ==
  IF req[r].response # <<>> /\ Response(r).status # StatusOk
    THEN Response(r).error.msg ELSE "none"

\* C9 as stated: a location string with a comma whose components are not
\* numbers ends the request with the error "Invalid coordinate format".
C9_MalformedIsInvalidCoordinates ==
  \A r \in Slots :
    (req[r].pc # "idle" /\ MalformedCoordinateLike(req[r].location))
      => /\ req[r].pc = "done"
         /\ ErrorMsg(r) = "Invalid coordinate format"

\* C9 as amended: a location string with a comma whose components are not
\* numbers is sent to the geocoding provider, and the request goes on with the
\* provider's point or ends with the provider's failure; no location string
\* ends a request with "Invalid coordinate format".
C9_MalformedIsGeocoded ==
  \A r \in Slots :
    /\ ErrorMsg(r) # "Invalid coordinate format"
    /\ (req[r].pc # "idle" /\ MalformedCoordinateLike(req[r].location))
         => /\ req[r].geocodeCalls = 1
            /\ ErrorMsg(r) \in {"none", "Unable to find location", "Geocoding failed"}
            /\ req[r].coordinates \in {<<>>, <<GeoPoint>>}
            /\ req[r].pc \in {"search", "enrich"} => req[r].coordinates = <<GeoPoint>>

C9_Witness ==
  \E r \in Slots :
    /\ req[r].location = <<"a", ",", "a">>
    /\ req[r].pc = "done" /\ req[r].geocodeCalls = 1
    /\ ErrorMsg(r) = "Unable to find location"

\* C10: a location string that, trimmed, is two decimal numbers around one
\* comma yields exactly those two numbers as coordinates, sends no geocoding
\* request, and is answered with them as search_location.
C10_LiteralIsParsedExactly ==
  \A r \in Slots :
    LET s == Trim(req[r].location)
    IN  (req[r].pc # "idle" /\ LatLngCommas(s) # {})
          => LET k == CHOOSE c \in LatLngCommas(s) : TRUE
                 point == [lat |-> DecimalValue(SubSeq(s, 1, k - 1)),
                           lng |-> DecimalValue(SubSeq(s, k + 1, Len(s)))]
             IN  /\ req[r].geocodeCalls = 0
                 /\ req[r].coordinates = <<point>>
                 /\ req[r].pc = "done" =>
                      /\ Response(r).status = StatusOk
                      /\ Response(r).search_location = point

C10_Witness ==
  \E r \in Slots :
    /\ Answered(r) /\ req[r].geocodeCalls = 0
    /\ req[r].location = <<"1", ".", "1", ",", "0">>
    /\ Response(r).search_location.lat.frac = <<"1">>

\* C11: when the geocoding provider reports ZERO_RESULTS the request ends with
\* the location-not-found error, which carries the location that was asked
\* for; for every other status that is not OK it ends with the generic
\* geocoding error naming the status; in both cases no places search is sent.
C11_GeocodeFailureKinds ==
  \A r \in Slots :
    req[r].geocodeStatus \notin {"none", "OK"} =>
      /\ req[r].pc = "done"
      /\ Response(r).status = StatusError
      /\ req[r].searchCalls = 0
      /\ req[r].units = <<>>
      /\ IF req[r].geocodeStatus = "ZERO_RESULTS"
           THEN /\ Response(r).error.msg = "Unable to find location"
                /\ Response(r).error.location = req[r].location
           ELSE /\ Response(r).error.msg = "Geocoding failed"
                /\ Response(r).error.status = req[r].geocodeStatus

C11_Witness ==
  \E r \in Slots :
    /\ req[r].pc = "done" /\ req[r].geocodeStatus = "ZERO_RESULTS"
    /\ req[r].location = <<"a", " ", "a", ",", "a">>
    /\ Response(r).error.location = <<"a", " ", "a", ",", "a">>

\* C12: a candidate whose details request was answered with a status other
\* than OK returns nothing: it writes to neither table, calls no generator and
\* is not in the response; the request is answered with status 200 and with the
\* record of every other candidate that returned one.
C12_DetailsFailureDropsCandidate ==
  \A r \in Slots : \A i \in Units(r) :
    LET u == Unit(r, i)
    IN  u.detailsStatus \notin {"none", "OK"} =>
          /\ u.pc = "finished"
          /\ u.data = <<>> /\ u.ai = <<>> /\ u.result = <<>>
          /\ u.nVenueWrites = 0 /\ u.nSummaryWrites = 0 /\ u.nGemini = 0
          /\ req[r].pc \in {"enrich", "done"}
          /\ req[r].pc = "done" =>
               /\ Response(r).status = StatusOk
               /\ \A k \in DOMAIN Response(r).restaurants :
                    Response(r).restaurants[k].ord # i
               /\ Response(r).total_found = Cardinality(Kept(r))
               /\ \A j \in Units(r) :
                    /\ Unit(r, j).pc = "finished"
                    /\ Unit(r, j).data # <<>> =>
                         \E k \in DOMAIN Response(r).restaurants :
                           Response(r).restaurants[k]
                             = Scored(BuildResult(Unit(r, j).data[1], Unit(r, j).ai, j),
                                      req[r].max_price)

C12_Witness ==
  \E r \in Slots : \E i, j \in Units(r) :
    /\ req[r].pc = "done" /\ i < j
    /\ Unit(r, i).detailsStatus = "NOT_FOUND"
    /\ Unit(r, j).detailsStatus = "OK" /\ Unit(r, j).nSummaryWrites = 1
    /\ Len(Response(r).restaurants) = 1
    /\ Response(r).restaurants[1].ord = j

\* The messages of the errors that end a request.
FatalMessages ==
  {"Missing required API keys", "Invalid coordinate format", "Unable to find location",
   "Geocoding failed", "Places API error"}

\* A request that ended with the error response has started no candidate and
\* its response holds the one error and nothing else.
FailedWithoutEnrichment ==
  \A r \in Slots :
    (req[r].pc = "done" /\ Response(r).status # StatusOk) =>
      /\ req[r].units = <<>>
      /\ Len(req[r].response) = 1
      /\ Response(r).error.msg \in FatalMessages
      /\ Response(r).restaurants = <<>>
      /\ Response(r).total_found = 0

\* A step of a request that has no candidates (it is in stage 1 or 2, or it
\* has failed) reads and writes neither table.
StagesOneAndTwoLeaveTables ==
  (\A r \in Slots : req[r].units = <<>> /\ req'[r].units = <<>>)
    => UNCHANGED <<restaurants, summaries>>

\* C13: a request that fails with a fatal error has begun no enrichment work
\* (no cache read or write, no details request, no generator call), both
\* tables are as they were when it arrived, and its response is the single
\* error without results.
C13_FatalErrorBeforeEnrichment ==
  []FailedWithoutEnrichment /\ [][StagesOneAndTwoLeaveTables]_vars

C13_Witness ==
  \E r \in Slots :
    /\ req[r].pc = "done" /\ Response(r).status = StatusError
    /\ Response(r).error.msg = "Places API error"
    /\ req[r].geocodeCalls = 1 /\ req[r].units = <<>>
    /\ restaurants # {} /\ summaries # {}

\* The success body: restaurants, search_location, total_found, status 200.
SuccessShape(r) ==
  /\ DOMAIN Response(r) = {"status", "restaurants", "search_location", "total_found"}
  /\ Response(r).status = StatusOk
  /\ req[r].coordinates # <<>>
  /\ Response(r).search_location = req[r].coordinates[1]
  /\ Response(r).total_found = Len(Response(r).restaurants)

\* The failure body: error, restaurants [], total_found 0, a status other than 200.
FailureShape(r) ==
  /\ DOMAIN Response(r) = {"status", "error", "restaurants", "total_found"}
  /\ Response(r).status # StatusOk
  /\ Response(r).error.msg \in FatalMessages
  /\ Response(r).restaurants = <<>>
  /\ Response(r).total_found = 0

\* C14: a request that has ended has one response, of the success shape
\* (search_location the resolved coordinates, total_found the length of
\* restaurants) or of the failure shape (an error, no restaurants, total_found
\* 0, a status other than 200), and never of both.
C14_TwoResponseShapes ==
  \A r \in Slots :
    /\ req[r].pc = "done" =>
         /\ Len(req[r].response) = 1
         /\ SuccessShape(r) \/ FailureShape(r)
         /\ ~(SuccessShape(r) /\ FailureShape(r))
    /\ req[r].pc # "done" => req[r].response = <<>>

C14_Witness ==
  \E r \in Slots :
    /\ req[r].pc = "done" /\ SuccessShape(r)
    /\ Len(req[r].units) = 2
    /\ Response(r).total_found = 1
    /\ req[r].geocodeCalls = 1 /\ Response(r).search_location = GeoPoint

\* In an answered request every unit has returned, and every record a unit
\* returned is in the response with its score.
AnsweredAfterAllUnits ==
  \A r \in Slots :
    Answered(r) =>
      /\ \A i \in Units(r) : Unit(r, i).pc = "finished"
      /\ Len(Response(r).restaurants) = Cardinality(Kept(r))
      /\ \A j \in Kept(r) :
           \E k \in DOMAIN Response(r).restaurants :
             Response(r).restaurants[k] = Scored(Unit(r, j).result[1], req[r].max_price)

\* The step that computes the scores starts from a state in which every unit
\* of the request has returned, and changes no unit.
ScoringStepAfterJoin ==
  \A r \in Slots :
    (req[r].response = <<>> /\ req'[r].response # <<>> /\ req'[r].response[1].status = StatusOk)
      => /\ \A i \in Units(r) : Unit(r, i).pc = "finished"
         /\ req'[r].units = req[r].units

\* C15: scoring never begins while a unit of the request is still running:
\* under every interleaving of the units all of them have returned before the
\* scores are computed, and every returned record is scored and sent.
C15_FullJoinBeforeScoring ==
  []AnsweredAfterAllUnits /\ [][ScoringStepAfterJoin]_vars

C15_Witness ==
  \E r \in Slots :
    /\ Answered(r) /\ Len(req[r].units) = 2
    /\ Unit(r, 1).nSummaryWrites = 1
    /\ Unit(r, 2).nDetails = 0 /\ Unit(r, 2).nGemini = 0
    /\ Len(Response(r).restaurants) = 2

\* The venues of a search response behind the 25th.
Beyond(r) == {req[r].searchResults[i] : i \in 26..Len(req[r].searchResults)}

\* C16: however many venues the places search names, units run for the first
\* 25 only, one per candidate and in the order of the response; the response
\* holds at most 25 restaurants, each from a different one of those
\* candidates, and no row of either table belongs to a venue beyond the 25th.
C16_AtMostTwentyFiveCandidates ==
  \A r \in Slots :
    /\ Len(req[r].units) <= 25
    /\ req[r].pc \in {"enrich", "done"} /\ req[r].searchStatus = "OK" =>
         /\ Len(req[r].units) = Min(Len(req[r].searchResults), 25)
         /\ \A i \in Units(r) : Unit(r, i).place = req[r].searchResults[i]
    /\ \A row \in restaurants : row.place_id \notin Beyond(r)
    /\ \A row \in summaries : row.place_id \notin Beyond(r)
    /\ Answered(r) =>
         LET rs == Response(r).restaurants
         IN  /\ Len(rs) <= 25
             /\ \A k \in DOMAIN rs : rs[k].ord \in Units(r)
             /\ \A k \in DOMAIN rs :
                  rs[k].place_id \in {req[r].searchResults[rs[k].ord], NoVal}
             /\ \A a, b \in DOMAIN rs : a # b => rs[a].ord # rs[b].ord

C16_Witness ==
  \E r \in Slots :
    /\ Answered(r)
    /\ Len(req[r].searchResults) = 27
    /\ Len(Response(r).restaurants) = 25
    /\ Unit(r, 25).nSummaryWrites = 1
    /\ Cardinality(restaurants) = 25

\* Something failed inside the unit: a cache query, the details call, the
\* generator call or the parse of its text.
UnitFailed(u) ==
  \/ u.faults # {}
  \/ u.detailsStatus \notin {"none", "OK"}
  \/ u.parseFailed
  \/ (u.pc = "finished" /\ u.nGemini = 1 /\ u.ai = <<>>)

\* C17: once location resolution and the places search have succeeded, the
\* request is never answered with the error response, whatever failed inside
\* its units (cache query error, details failure or exception, generator
\* failure, answer without candidates, parse failure): it is answered with
\* status 200 and the record of every unit that returned one.
C17_UnitFailuresAreIsolated ==
  \A r \in Slots :
    req[r].searchStatus = "OK" =>
      /\ req[r].pc \in {"enrich", "done"}
      /\ req[r].pc = "done" =>
           /\ SuccessShape(r)
           /\ Len(Response(r).restaurants) = Cardinality(Kept(r))
           /\ \A i \in Units(r) :
                (Unit(r, i).data # <<>> /\ "details" \notin Unit(r, i).faults)
                  => i \in Kept(r)

C17_Witness ==
  \E r \in Slots :
    /\ Answered(r) /\ Len(req[r].units) = 2
    /\ Unit(r, 1).faults = {"venueRead", "details"}
    /\ "summaryRead" \in Unit(r, 2).faults /\ Unit(r, 2).parseFailed
    /\ UnitFailed(Unit(r, 1)) /\ UnitFailed(Unit(r, 2))
    /\ Len(Response(r).restaurants) = 1

\* C18: when a request is answered, every ai_summary it returns that was
\* generated in the request (summary cache miss) is in the summary table: the
\* table holds a row of that venue with the same rank_score, short_summary,
\* pros, cons and confidence.
C18_GeneratedSummaryIsPersisted ==
  \A r \in Slots :
    Answered(r) =>
      \A i \in Units(r) :
        LET u == Unit(r, i)
        IN  (u.nSummaryWrites = 1 /\ u.result # <<>> /\ u.result[1].ai_summary # <<>>)
              => \E row \in summaries :
                   /\ row.place_id = u.place
                   /\ Projection(row) = u.result[1].ai_summary[1]

\* Another request has a unit for the same place that missed the venue cache
\* and has sent its venue upsert.
OtherWroteVenue(r, i) ==
  \E q \in DOMAIN req : \E j \in DOMAIN req[q].units :
    /\ q # r
    /\ req[q].units[j].place = Unit(r, i).place
    /\ req[q].units[j].nDetails = 1 /\ req[q].units[j].nVenueWrites = 1

\* Another request has a unit for the same place that has sent its summary upsert.
OtherWroteSummary(r, i) ==
  \E q \in DOMAIN req : \E j \in DOMAIN req[q].units :
    /\ q # r
    /\ req[q].units[j].place = Unit(r, i).place
    /\ req[q].units[j].nSummaryWrites = 1 /\ req[q].units[j].pc = "finished"

\* The later of two venue upserts for one place leaves exactly one row of that
\* place in the table, the row it wrote.
LaterVenueWriteWins ==
  \A r \in DOMAIN req : \A i \in DOMAIN req[r].units :
    (/\ Unit(r, i).pc = "venueWrite" /\ req'[r].units[i].pc = "summaryRead"
     /\ Unit(r, i).nDetails = 1 /\ OtherWroteVenue(r, i))
      => {x \in restaurants' : x.place_id = Unit(r, i).place} = {Unit(r, i).data[1]}

\* The later of two summary upserts for one place leaves exactly one row of
\* that place in the table, the row it wrote.
LaterSummaryWriteWins ==
  \A r \in DOMAIN req : \A i \in DOMAIN req[r].units :
    (/\ Unit(r, i).pc = "summaryWrite" /\ req'[r].units[i].pc = "finished"
     /\ OtherWroteSummary(r, i))
      => {x \in summaries' : x.place_id = Unit(r, i).place} = {SummaryRow(Unit(r, i).ai[1])}

\* C19: when two requests at the same time enrich the same place, both miss
\* the cache and both write, each table afterwards holds exactly one row of
\* that place, the row of the write that happened last.
C19_LastWriteWins == [][LaterVenueWriteWins /\ LaterSummaryWriteWins]_vars

\* Ten times the points of rating and rank score, as the handler adds them.
QualityTenths(x) ==
  (IF Truthy(x.rating) THEN x.rating * 10 ELSE 0)
  + (IF x.ai_summary # <<>> /\ Truthy(x.ai_summary[1].rank_score)
       THEN x.ai_summary[1].rank_score * 3 ELSE 0)

\* C20: a venue whose price_level is 0 gets (1 - max_price / 4) * 20 points
\* for price on top of its other points (20 when max_price is 0); only a venue
\* without price_level gets none.
C20_PriceLevelZeroIsScored ==
  \A r \in Slots :
    Answered(r) =>
      \A k \in DOMAIN Response(r).restaurants :
        LET x == Response(r).restaurants[k]
        IN  /\ x.price_level = 0 =>
                 x.total_score = (QualityTenths(x) + (4 - req[r].max_price) * 50 + 5) \div 10
            /\ x.price_level = Undef => x.total_score = (QualityTenths(x) + 5) \div 10

\* The rows of the summary table of a unit's venue that are fresh for the
\* summary lookup the unit has built.
VenueSummaries(u) ==
  {row \in summaries : row.place_id = u.place /\ row.generated_at >= u.since}

\* The unit's summary lookup is answered in this step.
SummaryAnswered(r, i) ==
  /\ i \in DOMAIN req'[r].units
  /\ Unit(r, i).pc = "summaryRead"
  /\ req'[r].units[i].pc # "summaryRead"

\* A summarization call is sent for the unit in this step.
GeneratorCalled(r, i) ==
  /\ i \in DOMAIN req'[r].units
  /\ req'[r].units[i].nGemini > Unit(r, i).nGemini

\* A venue with a fresh summary row gets no summarization call and returns
\* that row's summary.
FreshSummaryIsReturned ==
  \A r \in Slots : \A i \in Units(r) :
    (SummaryAnswered(r, i) /\ VenueSummaries(Unit(r, i)) # {})
      => /\ req'[r].units[i].pc = "finished"
         /\ req'[r].units[i].nGemini = 0
         /\ req'[r].units[i].result # <<>>
         /\ \E row \in VenueSummaries(Unit(r, i)) :
              req'[r].units[i].result[1].ai_summary = <<Projection(row)>>

\* A summarization call follows a summary lookup that found no fresh row of the
\* venue, needs a review text of more than 20 characters, and is the unit's
\* only one.
GeneratorCalledOnMissOnce ==
  \A r \in Slots : \A i \in Units(r) :
    GeneratorCalled(r, i)
      => /\ Unit(r, i).pc = "summaryRead"
         /\ VenueSummaries(Unit(r, i)) = {}
         /\ ReviewTexts(Unit(r, i).data[1].reviews) # <<>>
         /\ Unit(r, i).nGemini = 0

\* C21: a venue that has a summary row stamped within the last 24 hours gets no
\* summarization call and returns the cached summary; a summarization call is
\* sent only after a summary cache miss, only when some review qualifies, and
\* at most once per candidate and request.
C21_FreshSummaryNoGeneratorCall ==
  [][FreshSummaryIsReturned /\ GeneratorCalledOnMissOnce]_vars

\* The generator's parsed output holds both dish lists.
ParsedDishLists(u) ==
  /\ u.parsed # <<>>
  /\ u.parsed[1].dishes_to_try.array
  /\ u.parsed[1].matching_menu_items.array

\* The record x holds the two dish lists of the parsed output a.
HoldsDishLists(x, a) ==
  /\ "dishes_to_try" \in DOMAIN x
  /\ "matching_menu_items" \in DOMAIN x
  /\ x.dishes_to_try = a.dishes_to_try.items
  /\ x.matching_menu_items = a.matching_menu_items.items

\* C22: when the generator's parsed output holds dishes_to_try and
\* matching_menu_items, the ai_summary the unit returns holds the two lists,
\* and so does the summary row the unit's upsert has stored.
C22_DishListsAreKept ==
  \A r \in Slots : \A i \in Units(r) :
    LET u == Unit(r, i)
    IN  (ParsedDishLists(u) /\ u.pc = "finished")
          => /\ u.result # <<>>
             /\ u.result[1].ai_summary # <<>>
             /\ HoldsDishLists(u.result[1].ai_summary[1], u.parsed[1])
             /\ \A row \in summaries :
                  (row.place_id = u.ai[1].place_id /\ row.generated_at = u.ai[1].generated_at)
                    => HoldsDishLists(row, u.parsed[1])

\* The unit missed the venue cache, its details request succeeded and its
\* venue upsert has been executed.
EnrichedByFetch(u) ==
  /\ u.nDetails = 1 /\ u.detailsStatus = "OK"
  /\ u.nVenueWrites = 1

\* The time at which the unit's venue upsert was executed (the summary lookup
\* is built in the same step).
VenueWrittenAt(u) == u.since + DayMs

\* A unit enriched by a details fetch has stored its venue row under the place
\* identifier of its cache lookup, and returns a record with that identifier.
FetchedVenueIsStoredUnderLookupId ==
  \A r \in DOMAIN req : \A i \in DOMAIN req[r].units :
    LET u == Unit(r, i)
    IN  EnrichedByFetch(u)
          => /\ \E row \in restaurants : row.place_id = u.place
             /\ u.pc = "finished" =>
                  /\ u.result # <<>>
                  /\ u.result[1].place_id = u.place

\* A venue lookup sent after another request's fetch of the same place was
\* stored, and less than 24 hours after that fetch, is a hit.
SecondRequestHitsVenueCache ==
  \A r, q \in DOMAIN req : \A i \in DOMAIN req[r].units : \A j \in DOMAIN req[q].units :
    LET u == Unit(r, i)
        v == Unit(q, j)
    IN  (/\ q # r /\ v.place = u.place /\ EnrichedByFetch(v)
         /\ u.pc # "venueRead" /\ "venueRead" \notin u.faults
         /\ u.lookupAt > VenueWrittenAt(v)
         /\ u.lookupAt - v.data[1].cached_at < DayMs)
          => u.nDetails = 0

\* C23: a candidate enriched on the cache-miss path with a successful details
\* fetch has its venue row upserted under the place identifier the cache lookup
\* used, and its result carries that identifier; so a second request for the
\* candidate within 24 hours hits the venue cache and sends no details request.
C23_FetchedVenueIsCachedUnderLookupId ==
  FetchedVenueIsStoredUnderLookupId /\ SecondRequestHitsVenueCache

\* The unit's summary upsert is executed in this step.
SummaryWritten(r, i) ==
  /\ i \in DOMAIN req'[r].units
  /\ Unit(r, i).pc = "summaryWrite"
  /\ req'[r].units[i].pc = "finished"

\* The record a unit upserts carries the place identifier of the unit's venue.
WrittenUnderVenueId ==
  \A r \in Slots : \A i \in Units(r) :
    SummaryWritten(r, i) => Unit(r, i).ai[1].place_id = Unit(r, i).place

\* A row that enters the summary table, or replaces one, comes from the upsert
\* of a unit whose venue has the row's place identifier, and holds what that
\* unit generated.
StoredRowsComeFromTheirVenue ==
  \A row \in summaries' \ summaries :
    \E r \in Slots : \E i \in Units(r) :
      /\ SummaryWritten(r, i)
      /\ row.place_id = Unit(r, i).place
      /\ row = SummaryRow(Unit(r, i).ai[1])

\* C24: every summary record written while a venue is enriched is keyed by
\* that venue's place identifier, whatever place_id the generator's output
\* names; so a row stored under an identifier was generated from the reviews of
\* the venue with that identifier, and only such a row answers its lookup.
C24_SummaryKeyedByVenue ==
  [][WrittenUnderVenueId /\ StoredRowsComeFromTheirVenue]_vars

\* The fresh rows that answer the summary lookup a unit has built.
LookupHits(u) ==
  {row \in summaries : /\ row.place_id = FilterText(u.data[1].place_id)
                       /\ row.generated_at >= u.since}

\* A summary lookup that finds a fresh row returns that row's summary without
\* a summarization call and without a write, whatever the request's filters.
SummaryHitReturnsRow ==
  \A r \in DOMAIN req : \A i \in DOMAIN req[r].units :
    (SummaryAnswered(r, i) /\ LookupHits(Unit(r, i)) # {})
      => /\ req'[r].units[i].pc = "finished"
         /\ req'[r].units[i].nGemini = 0
         /\ req'[r].units[i].result # <<>>
         /\ \E row \in LookupHits(Unit(r, i)) :
              req'[r].units[i].result[1].ai_summary = <<Projection(row)>>
         /\ summaries' = summaries

\* The unit generated the summary row its upsert stored.
Generated(u) ==
  /\ u.pc = "finished" /\ u.nSummaryWrites = 1
  /\ SummaryRow(u.ai[1]) \in summaries

\* The unit was answered from the summary cache.
ServedFromCache(u) == u.pc = "finished" /\ u.nGemini = 0 /\ u.ai # <<>>

\* A request served the row a request before it generated returns the same
\* ai_summary as that request, the one written for that request's filters.
LaterRequestGetsEarlierSummary ==
  \A r, q \in DOMAIN req : \A i \in DOMAIN req[r].units : \A j \in DOMAIN req[q].units :
    (/\ q # r /\ Generated(Unit(q, j)) /\ ServedFromCache(Unit(r, i))
     /\ Unit(r, i).ai[1] = SummaryRow(Unit(q, j).ai[1]))
      => /\ Unit(r, i).result[1].ai_summary = Unit(q, j).result[1].ai_summary
         /\ Unit(r, i).result[1].ai_summary[1].short_summary = FilterLabel(req[q].filters)

\* C25: on a fresh summary cache hit the ai_summary returned is the cached
\* record whatever the request's filters are: a request that differs from an
\* earlier one in veg_only, jain_food or menu only gets the summary generated
\* under the earlier request's filters.
C25_CachedSummaryIgnoresFilters ==
  []LaterRequestGetsEarlierSummary /\ [][SummaryHitReturnsRow]_vars

C25_Witness ==
  /\ req[1].pc = "done" /\ req[2].pc = "done"
  /\ req[1].filters = NoFilters /\ req[2].filters.veg_only
  /\ Len(req[1].units) = 1 /\ Len(req[2].units) = 1
  /\ Generated(req[1].units[1]) /\ ServedFromCache(req[2].units[1])
  /\ req[2].units[1].nDetails = 0
  /\ req[2].response[1].restaurants[1].ai_summary[1].short_summary = "any"

\* The unit's venue lookup finds, or has found, a fresh row.
UsesCachedVenue(u) ==
  \/ u.pc = "venueRead" /\ SelectVenue(u.place, u.since) # <<>>
  \/ u.pc # "venueRead" /\ u.nDetails = 0

\* No step of a request that uses a cached venue row changes the venue table.
VenueHitWritesNothing ==
  \A r \in Slots : \A i \in Units(r) :
    UsesCachedVenue(Unit(r, i)) => restaurants' = restaurants

\* No step of a request that uses a cached summary row changes the summary table.
SummaryHitWritesNothing ==
  \A r \in Slots : \A i \in Units(r) :
    ((Unit(r, i).pc = "summaryRead" /\ LookupHits(Unit(r, i)) # {})
       \/ ServedFromCache(Unit(r, i)))
      => /\ summaries' = summaries
         /\ Unit(r, i).nDetails = 0 => restaurants' = restaurants

\* A summary lookup that finds no row from the last 24 hours uses no stored row.
StaleSummaryIsMiss ==
  \A r \in Slots : \A i \in Units(r) :
    (SummaryAnswered(r, i) /\ LookupHits(Unit(r, i)) = {}) => req'[r].units[i].ai = <<>>

\* A venue row older than 24 hours at the lookup is a miss; a row used from
\* the cache is still in the table as it was read.
ExpiredVenueIsMiss ==
  \A r \in Slots : \A i \in Units(r) :
    LET u == Unit(r, i)
    IN  /\ (u.pc # "venueRead" /\ u.seenVenue # <<>> /\ SeenAge(u) > DayMs) => u.nDetails = 1
        /\ (u.pc # "venueRead" /\ u.nDetails = 0)
             => u.nVenueWrites = 0 /\ u.data[1] \in restaurants
        /\ ServedFromCache(u) => u.nSummaryWrites = 0 /\ u.ai[1] \in summaries

\* C26: a cache hit writes nothing: a request that uses a cached venue row or
\* a cached summary row leaves the row and its timestamp as they are, so a
\* read never renews a row, and a row is a miss once 24 hours have passed since
\* its last write however often it was hit before.
C26_CacheHitWritesNothing ==
  /\ []ExpiredVenueIsMiss
  /\ [][VenueHitWritesNothing /\ SummaryHitWritesNothing /\ StaleSummaryIsMiss]_vars

C26_Witness ==
  \E r \in Slots : \E i \in Units(r) :
    LET u == Unit(r, i)
    IN  /\ req[r].pc = "done" /\ u.nDetails = 0 /\ ServedFromCache(u)
        /\ SeenAge(u) = DayMs
        /\ now - u.data[1].cached_at > DayMs
        /\ u.data[1] \in restaurants /\ u.ai[1] \in summaries

\* A request that has arrived is eventually answered.
EveryRequestIsAnswered ==
  \A r \in Slots : (req[r].pc # "idle") ~> (req[r].pc = "done")

\* A request holds a response exactly when it has ended, and then one.
OneResponseWhenDone ==
  \A r \in Slots :
    /\ Len(req[r].response) <= 1
    /\ req[r].response # <<>> <=> req[r].pc = "done"

\* A response that has been produced is not produced again: it stays as it is
\* until the invocation is over.
ResponseIsFinal ==
  \A r \in Slots :
    req[r].response # <<>>
      => \/ req'[r].response = req[r].response /\ req'[r].units = req[r].units
         \/ req'[r] = IdleReq

\* C27: when every outbound call (geocoding, search, details, summarization,
\* cache read and write) eventually returns or fails, every request eventually
\* has exactly one response: under no interleaving of its units does it wait
\* forever, and no response is produced twice.
C27_EveryRequestAnsweredOnce ==
  EveryRequestIsAnswered /\ []OneResponseWhenDone /\ [][ResponseIsFinal]_vars

C27_Witness ==
  \E r \in Slots :
    /\ req[r].pc = "done" /\ Len(req[r].response) = 1
    /\ Len(req[r].units) = 2
    /\ Unit(r, 1).result = <<>> /\ "details" \in Unit(r, 1).faults
    /\ Unit(r, 2).nSummaryWrites = 1
    /\ restaurants # {}

====
